---- MODULE Spec2Model ----
(***************************************************************************)
(* Quota and subscription lifecycle of realagent-be: plan resolution, the  *)
(* quota evaluator (canCreateProperty), the creation gate                  *)
(* (enforcePostLimit), the post-creation check of createProperty and the   *)
(* grace reconciliation sweep (runGraceCleanup).                           *)
(*                                                                         *)
(* Time is a counter of abstract instants; a timestamp is an instant or    *)
(* NoTime (null / undefined).                                              *)
(***************************************************************************)
EXTENDS Integers, Sequences, FiniteSets, TLC

VARIABLES
  now,      \* Date.now()
  planDb,   \* the Plan collection: a set of [name, postLimit] documents
  users,    \* the User collection: account id -> document
  props,    \* the Property collection: a set of documents
  cloud,    \* the external artifact store: ids of the stored media
  nextId,   \* next Property _id
  req,      \* one POST /api/properties request each: position and locals
  sw,       \* the runGraceCleanup pass in progress: position and locals
  trimmed,  \* history: the loop iterations the passes have completed
  ev,       \* last call of a plan helper: its inputs and its result
  count0,   \* history: each account's count of counted properties at the start
  sw2,      \* a runGraceCleanup pass that overlaps the one in sw
  failed    \* history: the loop iterations that ended in the per-user catch

vars ==
  <<now, planDb, users, props, cloud, nextId, req, sw, trimmed, ev, count0, sw2, failed>>

----------------------------------------------------------------------------
(* Bounds of the model *)

NumAccounts == 2
NumRequests == 2
MaxInitProps == 6
Horizon == 1
MaxPasses == 2

Accounts == 1..NumAccounts
Requests == 1..NumRequests

T0 == MaxInitProps + 1      \* the instant of the initial state
MaxTime == T0 + Horizon

NoTime == -1                \* a null / undefined Date
NoName == "undefined"       \* an absent plan name or status
Undef == -99                \* an absent number in a response

----------------------------------------------------------------------------
(* Plan registry: config file and Plan collection *)

FreePostLimit == 5
TrialPostLimit == 15
ProPostLimit == 15
PremiumPostLimit == 50
EnterprisePostLimit == -1
GraceDays == 7
SweepFallbackLimit == 5

defaultPlan == "free"

FilePlans ==
  { [name |-> "free", postLimit |-> FreePostLimit],
    [name |-> "trial", postLimit |-> TrialPostLimit],
    [name |-> "pro", postLimit |-> ProPostLimit],
    [name |-> "premium", postLimit |-> PremiumPostLimit],
    [name |-> "enterprise", postLimit |-> EnterprisePostLimit] }

\* PlanConfig.plans[name], for a name the file has
FilePlan(name) == CHOOSE p \in FilePlans : p.name = name

FileHas(name) == \E p \in FilePlans : p.name = name

\* a || b on numbers: 0 is falsy
OrElse(a, b) == IF a = 0 THEN b ELSE a

getPlanConfig(planName) ==
  IF planName = NoName THEN FilePlan(defaultPlan)
  ELSE IF FileHas(planName) THEN FilePlan(planName)
  ELSE FilePlan(defaultPlan)

\* PlanModel.findOne({ name }): the document, when the collection has one
DbHas(db, name) == \E p \in db : p.name = name

DbPlan(db, name) == CHOOSE p \in db : p.name = name

\* dbOk = FALSE: the lookup throws, the catch falls back to the file
getPlanConfigAsync(planName, db, dbOk) ==
  LET pn == IF planName = NoName THEN defaultPlan ELSE planName
  IN IF dbOk /\ DbHas(db, pn) THEN DbPlan(db, pn) ELSE getPlanConfig(pn)

\* mutant: the trial is looked at only when the subscription names no plan
getUserPlanAsyncPlanFirst(user, db, dbOk) ==
  IF user.id = 0 THEN getPlanConfigAsync(defaultPlan, db, dbOk)
  ELSE IF user.plan # NoName THEN getPlanConfigAsync(user.plan, db, dbOk)
  ELSE IF user.status = "trialing" THEN getPlanConfigAsync("trial", db, dbOk)
  ELSE getPlanConfigAsync(defaultPlan, db, dbOk)

\* a user document with id 0 stands for a missing user (!user)
getUserPlanAsync(user, db, dbOk) ==
  IF user.id = 0 THEN getPlanConfigAsync(defaultPlan, db, dbOk)
  ELSE IF user.status = "trialing" THEN getPlanConfigAsync("trial", db, dbOk)
  ELSE getPlanConfigAsync(IF user.plan = NoName THEN defaultPlan ELSE user.plan,
                          db, dbOk)

isInGrace(user, t) ==
  IF user.id = 0 THEN FALSE
  ELSE IF user.graceUntil = NoTime THEN FALSE
  ELSE user.graceUntil > t

\* Property.countDocuments({ agent, status: { $ne: 'deleted' } })
countPropertiesForAgent(userId, ps) ==
  IF userId = 0 THEN 0
  ELSE Cardinality({p \in ps : p.agent = userId /\ p.status # "deleted"})

\* mutant: the limit test lets the count reach limit + 1
canCreatePropertyOffByOne(userDoc, db, dbOk, ps, t) ==
  IF userDoc.id = 0
  THEN [allowed |-> FALSE, reason |-> "No user", current |-> Undef,
        limit |-> Undef, inGrace |-> FALSE]
  ELSE IF userDoc.role = "admin"
  THEN [allowed |-> TRUE, reason |-> "admin bypass", current |-> Undef,
        limit |-> Undef, inGrace |-> FALSE]
  ELSE
    LET plan == getUserPlanAsync(userDoc, db, dbOk)
        limit == OrElse(plan.postLimit, 0)
        current == countPropertiesForAgent(userDoc.id, ps)
        inGrace == isInGrace(userDoc, t)
    IN IF ~inGrace /\ current > limit
       THEN [allowed |-> FALSE, reason |-> "post_limit_reached",
             current |-> current, limit |-> limit, inGrace |-> FALSE]
       ELSE [allowed |-> TRUE, reason |-> "none",
             current |-> current, limit |-> limit, inGrace |-> inGrace]

\* mutant: the admin bypass is looked at only where the count rule refuses
canCreatePropertyAdminLast(userDoc, db, dbOk, ps, t) ==
  IF userDoc.id = 0
  THEN [allowed |-> FALSE, reason |-> "No user", current |-> Undef,
        limit |-> Undef, inGrace |-> FALSE]
  ELSE
    LET plan == getUserPlanAsync(userDoc, db, dbOk)
        limit == OrElse(plan.postLimit, 0)
        current == countPropertiesForAgent(userDoc.id, ps)
        inGrace == isInGrace(userDoc, t)
    IN IF inGrace \/ current < limit
       THEN [allowed |-> TRUE, reason |-> "none",
             current |-> current, limit |-> limit, inGrace |-> inGrace]
       ELSE IF userDoc.role = "admin"
       THEN [allowed |-> TRUE, reason |-> "admin bypass", current |-> Undef,
             limit |-> Undef, inGrace |-> FALSE]
       ELSE [allowed |-> FALSE, reason |-> "post_limit_reached",
             current |-> current, limit |-> limit, inGrace |-> FALSE]

canCreateProperty(userDoc, db, dbOk, ps, t) ==
  IF userDoc.id = 0
  THEN [allowed |-> FALSE, reason |-> "No user", current |-> Undef,
        limit |-> Undef, inGrace |-> FALSE]
  ELSE IF userDoc.role = "admin"
  THEN [allowed |-> TRUE, reason |-> "admin bypass", current |-> Undef,
        limit |-> Undef, inGrace |-> FALSE]
  ELSE
    LET plan == getUserPlanAsync(userDoc, db, dbOk)
        limit == OrElse(plan.postLimit, 0)
        current == countPropertiesForAgent(userDoc.id, ps)
        inGrace == isInGrace(userDoc, t)
    IN IF ~inGrace /\ current >= limit
       THEN [allowed |-> FALSE, reason |-> "post_limit_reached",
             current |-> current, limit |-> limit, inGrace |-> FALSE]
       ELSE [allowed |-> TRUE, reason |-> "none",
             current |-> current, limit |-> limit, inGrace |-> inGrace]

----------------------------------------------------------------------------
(* Documents *)

Plans == {"free", "basic", "pro", "enterprise"}   \* subscription.plan enum

UserDoc(a, role, plan, status, grace) ==
  [id |-> a, role |-> role, plan |-> plan, status |-> status,
   graceUntil |-> grace,
   trialEndsAt |-> IF status = "trialing" THEN T0 + 1 ELSE NoTime,
   currentPeriodEnd |-> IF status = "active" THEN T0 + 1 ELSE NoTime,
   cancelAtPeriodEnd |-> FALSE, cancelAt |-> NoTime]

\* a user as the schema defaults create it
DefaultUser(a) == UserDoc(a, "agent", "free", "none", NoTime)

PropDoc(id, a, t, status, art) ==
  [id |-> id, agent |-> a, createdAt |-> t, status |-> status, art |-> art]

\* the Plan collections the model starts from: empty (the file decides),
\* edited by an administrator, a zero limit, the unlimited sentinel on free
PlanDbChoices ==
  { {},
    { [name |-> "free", postLimit |-> 2], [name |-> "trial", postLimit |-> 4],
      [name |-> "pro", postLimit |-> 3] },
    { [name |-> "free", postLimit |-> 0] },
    { [name |-> "free", postLimit |-> EnterprisePostLimit] } }

GraceChoices == {NoTime, T0, T0 + 1}

\* subscriptions the handlers can leave behind: status none goes with plan
\* free (schema default, cancel, expiry); subscribe and the webhook set
\* trialing / active with a plan of the enum, and the webhook keeps
\* whatever graceUntil it finds
PlanStatusChoices ==
  { <<"free", "none">>, <<"pro", "trialing">>, <<"basic", "active">>,
    <<"pro", "active">>, <<"enterprise", "active">> }

SubChoices ==
  { [plan |-> ps[1], status |-> ps[2], grace |-> g] :
      ps \in PlanStatusChoices, g \in GraceChoices }

\* account a starts with n properties, created at distinct instants 1..n
InitPropsOf(a, n) ==
  { PropDoc((a - 1) * (MaxInitProps + 1) + i, a, i, "active",
            (a - 1) * (MaxInitProps + 1) + i) : i \in 1..n }

ArtsOf(ps) == { p.art : p \in { q \in ps : q.art # 0 } }

FirstFreeId == NumAccounts * (MaxInitProps + 1) + 1

----------------------------------------------------------------------------
(* POST /api/properties: auth, requireRole('agent'), enforcePostLimit,     *)
(* createProperty                                                          *)

NoDecision ==
  [allowed |-> FALSE, reason |-> "unset", current |-> Undef, limit |-> Undef,
   inGrace |-> FALSE]

IdleReq ==
  [pc |-> "idle", user |-> DefaultUser(1), status |-> "active", art |-> 0,
   gate |-> NoDecision, check |-> NoDecision, rid |-> 0, resp |-> 0,
   t0 |-> NoTime, c0 |-> 0, cEnd |-> 0, solo |-> TRUE]

\* the artifact request r uploaded through /api/uploads before posting
UploadOf(r) == 0 - r

InFlight == {"gated", "persisted", "rollback"}

\* history fields of a request: t0 and c0, the instant of its gate and the
\* account's count of counted properties then; cEnd, that count when the
\* request ended; solo, no other request of the account created or removed
\* a property while this one was between its gate and its response
\* another request of the same account changed the collection under q
Disturb(r, a) ==
  [q \in Requests |->
     IF q # r /\ req[q].user.id = a /\ req[q].pc \in InFlight
     THEN [req[q] EXCEPT !.solo = FALSE] ELSE req[q]]

\* auth loads req.user; requireRole('agent') answers 403 to any other role
Auth(r, a, st) ==
  /\ req[r].pc = "idle"
  /\ r > 1 => req[r - 1].pc # "idle"     \* requests are numbered as they arrive
  /\ LET art == UploadOf(r)
     IN /\ cloud' = cloud \cup {art}
        /\ req' = [req EXCEPT ![r] =
             IF users[a].role = "agent"
             THEN [@ EXCEPT !.pc = "authed", !.user = users[a],
                            !.status = st, !.art = art]
             ELSE [@ EXCEPT !.pc = "done", !.user = users[a],
                            !.status = st, !.art = art, !.resp = 403]]
  /\ UNCHANGED <<now, planDb, users, props, nextId, sw, trimmed, ev, count0, sw2, failed>>

\* mutant: the gate lets every request through
enforcePostLimitOpen(r) ==
  /\ req[r].pc = "authed"
  /\ LET result == canCreateProperty(req[r].user, planDb, TRUE, props, now)
         c == Cardinality({p \in props : p.agent = req[r].user.id
                                          /\ p.status # "deleted"})
     IN req' = [req EXCEPT ![r] =
          [@ EXCEPT !.pc = "gated", !.gate = result, !.t0 = now, !.c0 = c]]
  /\ UNCHANGED <<now, planDb, users, props, cloud, nextId, sw, trimmed, ev, count0, sw2, failed>>

enforcePostLimit(r) ==
  /\ req[r].pc = "authed"
  /\ LET result == canCreateProperty(req[r].user, planDb, TRUE, props, now)
         c == Cardinality({p \in props : p.agent = req[r].user.id
                                          /\ p.status # "deleted"})
     IN req' = [req EXCEPT ![r] =
          IF ~result.allowed
          THEN [@ EXCEPT !.pc = "done", !.gate = result, !.resp = 403,
                         !.t0 = now, !.c0 = c]
          ELSE [@ EXCEPT !.pc = "gated", !.gate = result, !.t0 = now, !.c0 = c]]
  /\ UNCHANGED <<now, planDb, users, props, cloud, nextId, sw, trimmed, ev, count0, sw2, failed>>

\* the early returns of createProperty (email not verified, data URIs,
\* short description, fewer than 2 media) and a failed Property.create:
\* the uploaded media are cleaned up, best effort, and nothing is persisted
RejectBeforeCreate(r, cloudOk) ==
  /\ req[r].pc = "gated"
  /\ req' = [req EXCEPT ![r] = [@ EXCEPT !.pc = "done", !.resp = 400]]
  /\ cloud' = IF cloudOk THEN cloud \ {req[r].art} ELSE cloud
  /\ UNCHANGED <<now, planDb, users, props, nextId, sw, trimmed, ev, count0, sw2, failed>>

\* Property.create
CreateDoc(r) ==
  /\ req[r].pc = "gated"
  /\ props' = props \cup
       {PropDoc(nextId, req[r].user.id, now, req[r].status, req[r].art)}
  /\ nextId' = nextId + 1
  /\ req' = [Disturb(r, req[r].user.id) EXCEPT ![r] =
       [@ EXCEPT !.pc = "persisted", !.rid = nextId]]
  /\ UNCHANGED <<now, planDb, users, cloud, sw, trimmed, ev, count0, sw2, failed>>

\* mutant: the test compares the count before the creation
OverBefore(check) == check.inGrace /\ check.current - 1 > check.limit

\* mutant: the test removes a creation that only reaches the limit
OverAtLimit(check) == check.inGrace /\ check.current >= check.limit

\* mutant: the test asks for a refusal, which grace never gives
OverRefused(check) == ~check.allowed /\ check.current > check.limit

\* if (check && check.inGrace && check.current > check.limit)
Over(check) == check.inGrace /\ check.current > check.limit

\* the post-creation canCreateProperty and its test
PostCreateCheck(r) ==
  /\ req[r].pc = "persisted"
  /\ LET check == canCreateProperty(req[r].user, planDb, TRUE, props, now)
     IN req' = [req EXCEPT ![r] =
          IF Over(check)
          THEN [@ EXCEPT !.pc = "rollback", !.check = check]
          ELSE [@ EXCEPT !.pc = "done", !.check = check, !.resp = 201,
                         !.cEnd = countPropertiesForAgent(req[r].user.id, props)]]
  /\ UNCHANGED <<now, planDb, users, props, cloud, nextId, sw, trimmed, ev, count0, sw2, failed>>

\* mutant: a failed media cleanup ends the rollback, as a failed delete does
RemoveCreatedUnlessCleanupFails(r, cloudOk) ==
  /\ req[r].pc = "rollback"
  /\ cloud' = IF cloudOk THEN cloud \ {req[r].art} ELSE cloud
  /\ props' = IF cloudOk THEN {p \in props : p.id # req[r].rid} ELSE props
  /\ req' = [Disturb(r, req[r].user.id) EXCEPT ![r] =
       [@ EXCEPT !.pc = "done", !.resp = IF cloudOk THEN 403 ELSE 201,
                 !.cEnd = countPropertiesForAgent(req[r].user.id, props')]]
  /\ UNCHANGED <<now, planDb, users, nextId, sw, trimmed, ev, count0, sw2, failed>>

\* media cleanup (best effort), Property.findByIdAndDelete, 403
RemoveCreated(r, cloudOk) ==
  /\ req[r].pc = "rollback"
  /\ cloud' = IF cloudOk THEN cloud \ {req[r].art} ELSE cloud
  /\ props' = {p \in props : p.id # req[r].rid}
  /\ req' = [Disturb(r, req[r].user.id) EXCEPT ![r] =
       [@ EXCEPT !.pc = "done", !.resp = 403,
                 !.cEnd = countPropertiesForAgent(req[r].user.id, props')]]
  /\ UNCHANGED <<now, planDb, users, nextId, sw, trimmed, ev, count0, sw2, failed>>

Tick ==
  /\ now < MaxTime
  /\ now' = now + 1
  /\ UNCHANGED <<planDb, users, props, cloud, nextId, req, sw, trimmed, ev, count0, sw2, failed>>

IdleSweep ==
  [pc |-> "idle", pass |-> 0, sel |-> {}, cur |-> 0, defaultLimit |-> 0,
   limit |-> 0, count |-> 0, extras |-> {}, removed |-> 0, before |-> {}]

----------------------------------------------------------------------------
(* runGraceCleanup: one pass at a time, started at boot and every hour     *)

\* mutant: the date comparison also matches an unset graceUntil
SweepFilterUnsetToo(us, t) ==
  { a \in Accounts : us[a].plan = "free" /\ us[a].graceUntil <= t }

\* User.find({ 'subscription.plan': 'free',
\*             'subscription.graceUntil': { $lte: now } })
SweepFilter(us, t) ==
  { a \in Accounts : /\ us[a].plan = "free"
                     /\ us[a].graceUntil # NoTime
                     /\ us[a].graceUntil <= t }

\* freePlan.postLimit of Plan.findOne({ name: 'free' }), 0 when there is none
DbFreeLimit(db) == IF DbHas(db, "free") THEN DbPlan(db, "free").postLimit ELSE 0

SweepDefaultLimit(db) ==
  OrElse(OrElse(DbFreeLimit(db), FilePlan("free").postLimit), SweepFallbackLimit)

SweepLimit(db, defaultLimit) == OrElse(DbFreeLimit(db), defaultLimit)

\* Property.find({ agent, status: { $ne: 'deleted' } })
CountedOf(a, ps) == { p \in ps : p.agent = a /\ p.status # "deleted" }

\* .sort({ createdAt: -1 }).limit(k): the results the query can give, equal
\* createdAt being ordered either way
NewestSets(a, k, ps) ==
  LET C == CountedOf(a, ps)
      n == IF k < Cardinality(C) THEN k ELSE Cardinality(C)
  IN { S \in SUBSET C :
         /\ Cardinality(S) = n
         /\ \A p \in S, q \in C \ S : p.createdAt >= q.createdAt }

\* the end of a loop iteration: the next user, or the return
SweepAfter(sel) == IF sel = {} THEN "idle" ELSE "loop"

\* the selection query and the default limit
SweepStart ==
  /\ sw.pc = "idle"
  /\ sw.pass < MaxPasses
  /\ LET sel == SweepFilter(users, now)
     IN sw' = [IdleSweep EXCEPT !.pc = SweepAfter(sel), !.pass = sw.pass + 1,
                                !.sel = sel,
                                !.defaultLimit = SweepDefaultLimit(planDb)]
  /\ UNCHANGED <<now, planDb, users, props, cloud, nextId, req, trimmed, ev, count0, sw2, failed>>

\* for (const u of users): the limit and the count of the next user
SweepCount(u) ==
  /\ sw.pc = "loop"
  /\ u \in sw.sel
  /\ sw' = [sw EXCEPT !.pc = "counted", !.cur = u,
                      !.limit = SweepLimit(planDb, sw.defaultLimit),
                      !.count = Cardinality(CountedOf(u, props)),
                      !.before = CountedOf(u, props)]
  /\ UNCHANGED <<now, planDb, users, props, cloud, nextId, req, trimmed, ev, count0, sw2, failed>>

\* mutant: the grace window is left as it was
ClearGraceForgotten(u) == users' = users

\* u.subscription.graceUntil = null; u.save(): only that path is written
ClearGrace(u) == users' = [users EXCEPT ![u].graceUntil = NoTime]

Handled == [acct |-> sw.cur, pass |-> sw.pass, before |-> sw.before,
            limit |-> sw.limit]

\* mutant: an account within its limit loses its newest properties too
SweepWithinTrims ==
  /\ sw.pc = "counted"
  /\ sw.count <= sw.limit
  /\ ClearGrace(sw.cur)
  /\ \E S \in NewestSets(sw.cur, 1, props) :
       /\ props' = props \ S
       /\ cloud' = cloud \ ArtsOf(S)
  /\ trimmed' = trimmed \cup {Handled}
  /\ sw' = [sw EXCEPT !.pc = SweepAfter(sw.sel \ {sw.cur}),
                      !.sel = sw.sel \ {sw.cur}]
  /\ UNCHANGED <<now, planDb, nextId, req, ev, count0, sw2, failed>>

\* count <= limit: clear the grace window and continue
SweepWithin ==
  /\ sw.pc = "counted"
  /\ sw.count <= sw.limit
  /\ ClearGrace(sw.cur)
  /\ trimmed' = trimmed \cup {Handled}
  /\ sw' = [sw EXCEPT !.pc = SweepAfter(sw.sel \ {sw.cur}),
                      !.sel = sw.sel \ {sw.cur}]
  /\ UNCHANGED <<now, planDb, props, cloud, nextId, req, ev, count0, sw2, failed>>

\* count > limit: the query for the newest count - limit properties
SweepFind ==
  /\ sw.pc = "counted"
  /\ sw.count > sw.limit
  /\ \E S \in NewestSets(sw.cur, sw.count - sw.limit, props) :
       sw' = [sw EXCEPT !.pc = "deleting", !.extras = S]
  /\ UNCHANGED <<now, planDb, users, props, cloud, nextId, req, trimmed, ev, count0, sw2, failed>>

\* for (const p of extras): media cleanup (errors ignored), then
\* Property.findByIdAndDelete, newest first
SweepDelete(p, cloudOk) ==
  /\ sw.pc = "deleting"
  /\ p \in sw.extras
  /\ \A q \in sw.extras : q.createdAt <= p.createdAt
  /\ cloud' = IF cloudOk THEN cloud \ {p.art} ELSE cloud
  /\ props' = { q \in props : q.id # p.id }
  /\ sw' = [sw EXCEPT !.extras = sw.extras \ {p}, !.removed = sw.removed + 1]
  /\ UNCHANGED <<now, planDb, users, nextId, req, trimmed, ev, count0, sw2, failed>>

\* clear grace window after cleanup
SweepClear ==
  /\ sw.pc = "deleting"
  /\ sw.extras = {}
  /\ ClearGrace(sw.cur)
  /\ trimmed' = trimmed \cup {Handled}
  /\ sw' = [sw EXCEPT !.pc = SweepAfter(sw.sel \ {sw.cur}),
                      !.sel = sw.sel \ {sw.cur}]
  /\ UNCHANGED <<now, planDb, props, cloud, nextId, req, ev, count0, sw2, failed>>

NoEval == [op |-> "none", name |-> NoName, user |-> DefaultUser(0),
           db |-> {}, dbOk |-> TRUE, res |-> FilePlan(defaultPlan)]

\* account 1 is drawn from every subscription state and count; the others
\* are freshly registered agents holding one property
Init ==
  /\ now = T0
  /\ planDb \in PlanDbChoices
  /\ \E s \in SubChoices, role \in {"agent", "admin"} :
       /\ role = "admin" => (s.plan = "free" /\ s.grace = NoTime)
       /\ users = [a \in Accounts |->
            IF a = 1 THEN UserDoc(1, role, s.plan, s.status, s.grace)
            ELSE DefaultUser(a)]
  /\ \E n \in 0..MaxInitProps :
       props = InitPropsOf(1, n) \cup
               UNION { InitPropsOf(a, 1) : a \in Accounts \ {1} }
  /\ cloud = ArtsOf(props)
  /\ nextId = FirstFreeId
  /\ req = [r \in Requests |-> IdleReq]
  /\ sw = IdleSweep
  /\ trimmed = {}
  /\ ev = NoEval
  /\ count0 = [a \in Accounts |->
       Cardinality({p \in props : p.agent = a /\ p.status # "deleted"})]
  /\ sw2 = IdleSweep
  /\ failed = {}

Next ==
  \/ \E r \in Requests, a \in Accounts, st \in {"active", "deleted"} :
       Auth(r, a, st)
  \/ \E r \in Requests : enforcePostLimit(r)
  \/ \E r \in Requests, cloudOk \in BOOLEAN : RejectBeforeCreate(r, cloudOk)
  \/ \E r \in Requests : CreateDoc(r)
  \/ \E r \in Requests : PostCreateCheck(r)
  \/ \E r \in Requests, cloudOk \in BOOLEAN : RemoveCreated(r, cloudOk)
  \/ Tick

Spec == Init /\ [][Next]_vars

\* the shapes account 1's properties start in: created at distinct
\* instants; the two newest created at the same instant; a property of
\* status 'deleted' created last
InitShapes == {"distinct", "tie", "deleted"}

ShapedProps(n, shape) ==
  IF shape = "tie" /\ n >= 2
  THEN { IF p.createdAt = n THEN [p EXCEPT !.createdAt = n - 1] ELSE p :
           p \in InitPropsOf(1, n) }
  ELSE IF shape = "deleted" /\ n >= 1
  THEN { IF p.createdAt = n THEN [p EXCEPT !.status = "deleted"] ELSE p :
           p \in InitPropsOf(1, n) }
  ELSE InitPropsOf(1, n)

\* account 1 is drawn from every subscription state, count and shape; the
\* others are on the free plan, with or without a lapsed grace window,
\* holding one property or MaxInitProps
InitSweep ==
  /\ now = T0
  /\ planDb \in PlanDbChoices
  /\ \E s \in SubChoices, g \in {NoTime, T0} :
       users = [a \in Accounts |->
         IF a = 1 THEN UserDoc(1, "agent", s.plan, s.status, s.grace)
         ELSE UserDoc(a, "agent", "free", "none", g)]
  /\ \E n \in 0..MaxInitProps, shape \in InitShapes, m \in {1, MaxInitProps} :
       props = ShapedProps(n, shape) \cup
               UNION { InitPropsOf(a, m) : a \in Accounts \ {1} }
  /\ cloud = ArtsOf(props)
  /\ nextId = FirstFreeId
  /\ req = [r \in Requests |-> IdleReq]
  /\ sw = IdleSweep
  /\ trimmed = {}
  /\ ev = NoEval
  /\ count0 = [a \in Accounts |->
       Cardinality({p \in props : p.agent = a /\ p.status # "deleted"})]
  /\ sw2 = IdleSweep
  /\ failed = {}

NextSweep ==
  \/ SweepStart
  \/ \E u \in Accounts : SweepCount(u)
  \/ SweepWithin
  \/ SweepFind
  \/ \E p \in props, cloudOk \in BOOLEAN : SweepDelete(p, cloudOk)
  \/ SweepClear
  \/ Tick

SpecSweep == InitSweep /\ [][NextSweep]_vars

----------------------------------------------------------------------------
(* The plan helpers on their own: every plan name and user document, the   *)
(* Plan collection as the administrators' CRUD leaves it, the lookup       *)
(* failing or not                                                          *)

\* plan names a caller can pass: the file's, the enum's 'basic' (in no
\* registry unless an administrator adds it), one in neither, none
PlanNameInputs ==
  {NoName, "free", "trial", "basic", "pro", "premium", "enterprise", "gold"}

StatusInputs == {NoName, "none", "trialing", "active", "past_due", "canceled"}

\* user documents a caller can pass; id 0 is no user, plan and status
\* NoName a document without subscription
UserInputs ==
  {DefaultUser(0)} \cup
  { [DefaultUser(1) EXCEPT !.plan = pl, !.status = st] :
      pl \in Plans \cup {NoName}, st \in StatusInputs }

EditableNames == {"free", "basic"}
EditableLimits == {0, 2, EnterprisePostLimit}

\* planController.createPlan / updatePlan
SavePlan(name, limit) ==
  /\ planDb' = {p \in planDb : p.name # name} \cup
                {[name |-> name, postLimit |-> limit]}
  /\ UNCHANGED <<now, users, props, cloud, nextId, req, sw, trimmed, ev, count0, sw2, failed>>

\* planController.deletePlan
DeletePlan(name) ==
  /\ DbHas(planDb, name)
  /\ planDb' = {p \in planDb : p.name # name}
  /\ UNCHANGED <<now, users, props, cloud, nextId, req, sw, trimmed, ev, count0, sw2, failed>>

CallGetPlanConfig(name) ==
  /\ ev' = [NoEval EXCEPT !.op = "getPlanConfig", !.name = name,
                          !.db = planDb, !.res = getPlanConfig(name)]
  /\ UNCHANGED <<now, planDb, users, props, cloud, nextId, req, sw, trimmed, count0, sw2, failed>>

CallGetPlanConfigAsync(name, dbOk) ==
  /\ ev' = [NoEval EXCEPT !.op = "getPlanConfigAsync", !.name = name,
                          !.db = planDb, !.dbOk = dbOk,
                          !.res = getPlanConfigAsync(name, planDb, dbOk)]
  /\ UNCHANGED <<now, planDb, users, props, cloud, nextId, req, sw, trimmed, count0, sw2, failed>>

CallGetUserPlanAsync(u, dbOk) ==
  /\ ev' = [NoEval EXCEPT !.op = "getUserPlanAsync", !.user = u,
                          !.db = planDb, !.dbOk = dbOk,
                          !.res = getUserPlanAsync(u, planDb, dbOk)]
  /\ UNCHANGED <<now, planDb, users, props, cloud, nextId, req, sw, trimmed, count0, sw2, failed>>

InitPlan ==
  /\ now = T0
  /\ planDb \in PlanDbChoices
  /\ users = [a \in Accounts |-> DefaultUser(a)]
  /\ props = {}
  /\ cloud = {}
  /\ nextId = FirstFreeId
  /\ req = [r \in Requests |-> IdleReq]
  /\ sw = IdleSweep
  /\ trimmed = {}
  /\ ev = NoEval
  /\ count0 = [a \in Accounts |-> 0]
  /\ sw2 = IdleSweep
  /\ failed = {}

NextPlan ==
  \/ \E name \in EditableNames, limit \in EditableLimits : SavePlan(name, limit)
  \/ \E name \in EditableNames : DeletePlan(name)
  \/ \E name \in PlanNameInputs : CallGetPlanConfig(name)
  \/ \E name \in PlanNameInputs, dbOk \in BOOLEAN :
       CallGetPlanConfigAsync(name, dbOk)
  \/ \E u \in UserInputs, dbOk \in BOOLEAN : CallGetUserPlanAsync(u, dbOk)

SpecPlan == InitPlan /\ [][NextPlan]_vars

----------------------------------------------------------------------------
(* The subscription of an account: subscribe, cancel, the payment webhook, *)
(* the expiry refresh, the sweep. One instant is one day.                  *)

PeriodDays == 30

MaxSubTime == T0 + Horizon * GraceDays

\* the accounts whose holder sends subscription requests
Subscribers == {1}

\* save() validates subscription.plan against the schema's enum
PlanValid(plan) == plan \in Plans

\* plan names a request body or the webhook metadata can carry: none, the
\* enum's, and 'premium', which the plan file has and the enum has not
PlanBodyInputs == Plans \cup {NoName, "premium"}

\* dates a body can carry: none, or the day to come
DateInputs(t) == {NoTime, t + 1}

SubEvent(op, a, immediate, resp) ==
  [op |-> op, acct |-> a, immediate |-> immediate, resp |-> resp]

\* POST /subscribe: user.subscription = s replaces the nested object, so a
\* field s leaves out (graceUntil, for plan free) ends up unset
subscribe(a, plan, cpe, te) ==
  LET u == users[a]
      pl == IF plan = NoName THEN "basic" ELSE plan
      newCpe == IF cpe # NoTime THEN cpe ELSE u.currentPeriodEnd
      newTe == IF te # NoTime THEN te ELSE u.trialEndsAt
      st == IF newTe # NoTime /\ newTe > now THEN "trialing" ELSE "active"
      s == [u EXCEPT !.plan = pl, !.status = st,
                     !.currentPeriodEnd = newCpe, !.trialEndsAt = newTe,
                     !.graceUntil = NoTime,
                     !.cancelAtPeriodEnd = FALSE, !.cancelAt = NoTime]
  IN /\ users' = IF PlanValid(pl) THEN [users EXCEPT ![a] = s] ELSE users
     /\ ev' = SubEvent("subscribe", a, FALSE, IF PlanValid(pl) THEN 200 ELSE 500)
     /\ UNCHANGED <<now, planDb, props, cloud, nextId, req, sw, trimmed, count0, sw2, failed>>

\* mutant: an immediate cancel that grants no grace window
cancelNoGrace(a, immediate) ==
  LET u == users[a]
  IN /\ users' =
          IF u.status = "none" THEN users
          ELSE IF immediate
          THEN [users EXCEPT ![a] =
                  [u EXCEPT !.plan = "free", !.status = "none",
                            !.cancelAtPeriodEnd = FALSE, !.cancelAt = NoTime]]
          ELSE [users EXCEPT ![a] =
                  [u EXCEPT !.cancelAtPeriodEnd = TRUE,
                            !.cancelAt = u.currentPeriodEnd]]
     /\ ev' = SubEvent("cancel", a, immediate,
                       IF u.status = "none" THEN 400 ELSE 200)
     /\ UNCHANGED <<now, planDb, props, cloud, nextId, req, sw, trimmed, count0, sw2, failed>>

\* POST /cancel
cancel(a, immediate) ==
  LET u == users[a]
  IN /\ users' =
          IF u.status = "none" THEN users
          ELSE IF immediate
          THEN [users EXCEPT ![a] =
                  [u EXCEPT !.plan = "free", !.status = "none",
                            !.cancelAtPeriodEnd = FALSE, !.cancelAt = NoTime,
                            !.graceUntil = now + GraceDays]]
          ELSE [users EXCEPT ![a] =
                  [u EXCEPT !.cancelAtPeriodEnd = TRUE,
                            !.cancelAt = u.currentPeriodEnd]]
     /\ ev' = SubEvent("cancel", a, immediate,
                       IF u.status = "none" THEN 400 ELSE 200)
     /\ UNCHANGED <<now, planDb, props, cloud, nextId, req, sw, trimmed, count0, sw2, failed>>

\* POST /webhook, charge.success for user a: a failing save is caught and
\* logged, and the answer is 200 either way
webhook(a, plan, cpe) ==
  LET u == users[a]
      pl == IF plan # NoName THEN plan ELSE u.plan
      s == [u EXCEPT !.plan = pl, !.status = "active",
                     !.currentPeriodEnd =
                        IF cpe # NoTime THEN cpe ELSE now + PeriodDays]
  IN /\ users' = IF PlanValid(pl) THEN [users EXCEPT ![a] = s] ELSE users
     /\ ev' = SubEvent("webhook", a, FALSE, 200)
     /\ UNCHANGED <<now, planDb, props, cloud, nextId, req, sw, trimmed, count0, sw2, failed>>

\* mutant: the dates are looked at whatever the status
ExpiredWhateverStatus(u, t) ==
  \/ u.trialEndsAt # NoTime /\ u.trialEndsAt <= t
  \/ u.currentPeriodEnd # NoTime /\ u.currentPeriodEnd <= t

\* the two $or branches of refreshExpiredSubscriptions, the two tests of
\* refreshSubscriptionStatus
Expired(u, t) ==
  \/ u.status = "trialing" /\ u.trialEndsAt # NoTime /\ u.trialEndsAt <= t
  \/ u.status = "active" /\ u.currentPeriodEnd # NoTime /\ u.currentPeriodEnd <= t

Downgraded(u, t) ==
  [u EXCEPT !.plan = "free", !.status = "none", !.graceUntil = t + GraceDays]

refreshSubscriptionStatus(u, t) == IF Expired(u, t) THEN Downgraded(u, t) ELSE u

\* user.updateLastLogin(): refreshSubscriptionStatus, then save
updateLastLogin(a) ==
  /\ users' = [users EXCEPT ![a] = refreshSubscriptionStatus(users[a], now)]
  /\ ev' = SubEvent("updateLastLogin", a, FALSE, 200)
  /\ UNCHANGED <<now, planDb, props, cloud, nextId, req, sw, trimmed, count0, sw2, failed>>

\* User.refreshExpiredSubscriptions(): one updateMany
refreshExpiredSubscriptions ==
  /\ users' = [a \in Accounts |->
                 IF Expired(users[a], now) THEN Downgraded(users[a], now)
                 ELSE users[a]]
  /\ ev' = SubEvent("refreshExpiredSubscriptions", 1, FALSE, 200)
  /\ UNCHANGED <<now, planDb, props, cloud, nextId, req, sw, trimmed, count0, sw2, failed>>

\* d days pass
Elapse(d) ==
  /\ now + d <= MaxSubTime
  /\ now' = now + d
  /\ UNCHANGED <<planDb, users, props, cloud, nextId, req, sw, trimmed, ev, count0, sw2, failed>>

\* every account as registration leaves it; account 1 holds no property or
\* MaxInitProps of them; the Plan collection is empty, as the server leaves it
InitSub ==
  /\ now = T0
  /\ planDb = {}
  /\ users = [a \in Accounts |-> DefaultUser(a)]
  /\ \E n \in {0, MaxInitProps} :
       props = InitPropsOf(1, n) \cup
               UNION { InitPropsOf(a, 1) : a \in Accounts \ {1} }
  /\ cloud = ArtsOf(props)
  /\ nextId = FirstFreeId
  /\ req = [r \in Requests |-> IdleReq]
  /\ sw = IdleSweep
  /\ trimmed = {}
  /\ ev = NoEval
  /\ count0 = [a \in Accounts |->
       Cardinality({p \in props : p.agent = a /\ p.status # "deleted"})]
  /\ sw2 = IdleSweep
  /\ failed = {}

NextSub ==
  \/ \E a \in Subscribers, plan \in PlanBodyInputs,
        cpe \in DateInputs(now), te \in DateInputs(now) :
       subscribe(a, plan, cpe, te)
  \/ \E a \in Subscribers, immediate \in BOOLEAN : cancel(a, immediate)
  \/ \E a \in Subscribers, plan \in PlanBodyInputs, cpe \in DateInputs(now) :
       webhook(a, plan, cpe)
  \/ \E a \in Subscribers : updateLastLogin(a)
  \/ refreshExpiredSubscriptions
  \/ SweepStart
  \/ \E u \in Accounts : SweepCount(u)
  \/ SweepWithin
  \/ SweepFind
  \/ \E p \in props, cloudOk \in BOOLEAN : SweepDelete(p, cloudOk)
  \/ SweepClear
  \/ Elapse(GraceDays)

SpecSub == InitSub /\ [][NextSub]_vars

----------------------------------------------------------------------------
(* What the server does by itself as time passes: server.js runs           *)
(* runGraceCleanup at startup and then every hour. Nothing in the server   *)
(* calls updateLastLogin or refreshExpiredSubscriptions: they are steps    *)
(* the model allows and no schedule promises.                              *)

\* setInterval(runGraceCleanup, 1 h): one more pass, with no last one
SweepHourly ==
  /\ sw.pc = "idle"
  /\ LET sel == SweepFilter(users, now)
     IN sw' = [IdleSweep EXCEPT !.pc = SweepAfter(sel), !.pass = sw.pass,
                                !.sel = sel,
                                !.defaultLimit = SweepDefaultLimit(planDb)]
  /\ UNCHANGED <<now, planDb, users, props, cloud, nextId, req, trimmed, ev, count0, sw2, failed>>

InitCounts == {0, 3, MaxInitProps}

\* account 1 is drawn from every subscription state, with 0, 3 or
\* MaxInitProps properties
InitLive ==
  /\ now = T0
  /\ planDb \in PlanDbChoices
  /\ \E s \in SubChoices :
       users = [a \in Accounts |->
         IF a = 1 THEN UserDoc(1, "agent", s.plan, s.status, s.grace)
         ELSE DefaultUser(a)]
  /\ \E n \in InitCounts :
       props = InitPropsOf(1, n) \cup
               UNION { InitPropsOf(a, 1) : a \in Accounts \ {1} }
  /\ cloud = ArtsOf(props)
  /\ nextId = FirstFreeId
  /\ req = [r \in Requests |-> IdleReq]
  /\ sw = IdleSweep
  /\ trimmed = {}
  /\ ev = NoEval
  /\ count0 = [a \in Accounts |->
       Cardinality({p \in props : p.agent = a /\ p.status # "deleted"})]
  /\ sw2 = IdleSweep
  /\ failed = {}

SweepStep ==
  \/ SweepHourly
  \/ \E u \in Accounts : SweepCount(u)
  \/ SweepWithin
  \/ SweepFind
  \/ \E p \in props, cloudOk \in BOOLEAN : SweepDelete(p, cloudOk)
  \/ SweepClear

NextLive ==
  \/ SweepStep
  \/ Tick
  \/ \E a \in Accounts : updateLastLogin(a)
  \/ refreshExpiredSubscriptions

\* time passes, and the scheduled sweep keeps running and finishes its passes
SpecLive ==
  InitLive /\ [][NextLive]_vars /\ WF_vars(Tick) /\ WF_vars(SweepStep)

----------------------------------------------------------------------------
(* Creation requests and the sweep together, with the stores failing: the  *)
(* Property store throwing under canCreateProperty, under the rollback's   *)
(* delete and under the sweep's queries; the artifact store failing is the *)
(* cloudOk = FALSE of RemoveCreated, RejectBeforeCreate and SweepDelete    *)

\* canCreateProperty threw: there is no decision
Threw == [NoDecision EXCEPT !.reason = "threw"]

\* enforcePostLimit: canCreateProperty throws, the catch answers 500
enforcePostLimitFails(r) ==
  /\ req[r].pc = "authed"
  /\ req' = [req EXCEPT ![r] =
       [@ EXCEPT !.pc = "done", !.gate = Threw, !.resp = 500, !.t0 = now,
                 !.c0 = countPropertiesForAgent(req[r].user.id, props)]]
  /\ UNCHANGED <<now, planDb, users, props, cloud, nextId, sw, trimmed, ev, count0, sw2, failed>>

\* createProperty: the post-creation canCreateProperty throws, the inner
\* catch logs it and the handler goes on to res.status(201)
PostCreateCheckFails(r) ==
  /\ req[r].pc = "persisted"
  /\ req' = [req EXCEPT ![r] =
       [@ EXCEPT !.pc = "done", !.check = Threw, !.resp = 201,
                 !.cEnd = countPropertiesForAgent(req[r].user.id, props)]]
  /\ UNCHANGED <<now, planDb, users, props, cloud, nextId, sw, trimmed, ev, count0, sw2, failed>>

\* createProperty: Property.findByIdAndDelete throws after the media
\* cleanup; the same inner catch, the same 201, the document stays
RemoveCreatedFails(r, cloudOk) ==
  /\ req[r].pc = "rollback"
  /\ cloud' = IF cloudOk THEN cloud \ {req[r].art} ELSE cloud
  /\ req' = [req EXCEPT ![r] =
       [@ EXCEPT !.pc = "done", !.resp = 201,
                 !.cEnd = countPropertiesForAgent(req[r].user.id, props)]]
  /\ UNCHANGED <<now, planDb, users, props, nextId, sw, trimmed, ev, count0, sw2, failed>>

\* runGraceCleanup: a store call throws for user u before anything was
\* deleted; the per-user catch logs it and the loop goes on
SweepCountFails(u) ==
  /\ sw.pc = "loop"
  /\ u \in sw.sel
  /\ sw' = [sw EXCEPT !.pc = SweepAfter(sw.sel \ {u}), !.sel = sw.sel \ {u},
                      !.cur = u]
  /\ failed' = failed \cup {[acct |-> u, pass |-> sw.pass]}
  /\ UNCHANGED <<now, planDb, users, props, cloud, nextId, req, trimmed, ev, count0, sw2>>

\* mutant: the failure ends the pass, as an error outside the loop would
SweepTrimFailsAborts ==
  /\ sw.pc \in {"counted", "deleting"}
  /\ sw' = [sw EXCEPT !.pc = "idle", !.sel = {}, !.extras = {}]
  /\ failed' = failed \cup {[acct |-> sw.cur, pass |-> sw.pass]}
  /\ UNCHANGED <<now, planDb, users, props, cloud, nextId, req, trimmed, ev, count0, sw2>>

\* runGraceCleanup: a store call throws while the extras are being deleted
\* or when the user is saved; graceUntil stays as it was
SweepTrimFails ==
  /\ sw.pc \in {"counted", "deleting"}
  /\ sw' = [sw EXCEPT !.pc = SweepAfter(sw.sel \ {sw.cur}),
                      !.sel = sw.sel \ {sw.cur}, !.extras = {}]
  /\ failed' = failed \cup {[acct |-> sw.cur, pass |-> sw.pass]}
  /\ UNCHANGED <<now, planDb, users, props, cloud, nextId, req, trimmed, ev, count0, sw2>>

\* runGraceCleanup: the media of extra p are removed, then
\* Property.findByIdAndDelete throws; the document stays
SweepDeleteFails(p) ==
  /\ sw.pc = "deleting"
  /\ p \in sw.extras
  /\ \A q \in sw.extras : q.createdAt <= p.createdAt
  /\ cloud' = cloud \ {p.art}
  /\ sw' = [sw EXCEPT !.pc = SweepAfter(sw.sel \ {sw.cur}),
                      !.sel = sw.sel \ {sw.cur}, !.extras = {}]
  /\ failed' = failed \cup {[acct |-> sw.cur, pass |-> sw.pass]}
  /\ UNCHANGED <<now, planDb, users, props, nextId, req, trimmed, ev, count0, sw2>>

FaultCounts == {FreePostLimit - 1, FreePostLimit, MaxInitProps}

\* account 1 is on the free plan, with no grace window, one that has lapsed
\* or one that lapses at the next instant, just below, at or over the limit
InitFault ==
  /\ now = T0
  /\ planDb = {}
  /\ \E g \in GraceChoices :
       users = [a \in Accounts |->
         IF a = 1 THEN UserDoc(1, "agent", "free", "none", g)
         ELSE DefaultUser(a)]
  /\ \E n \in FaultCounts :
       props = InitPropsOf(1, n) \cup
               UNION { InitPropsOf(a, 1) : a \in Accounts \ {1} }
  /\ cloud = ArtsOf(props)
  /\ nextId = FirstFreeId
  /\ req = [r \in Requests |-> IdleReq]
  /\ sw = IdleSweep
  /\ trimmed = {}
  /\ ev = NoEval
  /\ count0 = [a \in Accounts |->
       Cardinality({p \in props : p.agent = a /\ p.status # "deleted"})]
  /\ sw2 = IdleSweep
  /\ failed = {}

NextFault ==
  \/ \E r \in Requests : Auth(r, 1, "active")
  \/ \E r \in Requests : enforcePostLimit(r)
  \/ \E r \in Requests : enforcePostLimitFails(r)
  \/ \E r \in Requests, cloudOk \in BOOLEAN : RejectBeforeCreate(r, cloudOk)
  \/ \E r \in Requests : CreateDoc(r)
  \/ \E r \in Requests : PostCreateCheck(r)
  \/ \E r \in Requests : PostCreateCheckFails(r)
  \/ \E r \in Requests, cloudOk \in BOOLEAN : RemoveCreated(r, cloudOk)
  \/ \E r \in Requests, cloudOk \in BOOLEAN : RemoveCreatedFails(r, cloudOk)
  \/ SweepStart
  \/ \E u \in Accounts : SweepCount(u)
  \/ \E u \in Accounts : SweepCountFails(u)
  \/ SweepWithin
  \/ SweepFind
  \/ \E p \in sw.extras, cloudOk \in BOOLEAN : SweepDelete(p, cloudOk)
  \/ SweepTrimFails
  \/ SweepClear
  \/ Tick

SpecFault == InitFault /\ [][NextFault]_vars

\* free-plan accounts holding 5 or 6 properties, under the file's limit of 5
\* or a limit of 2 stored in the Plan collection; each with or without a
\* lapsed grace window, account 1's perhaps lapsing at the next instant
InitIsolate ==
  /\ now = T0
  /\ planDb \in {{}, {[name |-> "free", postLimit |-> 2]}}
  /\ \E g1 \in GraceChoices, g2 \in {NoTime, T0} :
       users = [a \in Accounts |->
         UserDoc(a, "agent", "free", "none", IF a = 1 THEN g1 ELSE g2)]
  /\ \E n \in {FreePostLimit, MaxInitProps} :
       props = UNION { InitPropsOf(a, n) : a \in Accounts }
  /\ cloud = ArtsOf(props)
  /\ nextId = FirstFreeId
  /\ req = [r \in Requests |-> IdleReq]
  /\ sw = IdleSweep
  /\ trimmed = {}
  /\ ev = NoEval
  /\ count0 = [a \in Accounts |->
       Cardinality({p \in props : p.agent = a /\ p.status # "deleted"})]
  /\ sw2 = IdleSweep
  /\ failed = {}

\* the sweep alone, over several selected accounts, with the stores failing
NextIsolate ==
  \/ SweepStart
  \/ \E u \in Accounts : SweepCount(u)
  \/ \E u \in Accounts : SweepCountFails(u)
  \/ SweepWithin
  \/ SweepFind
  \/ \E p \in sw.extras, cloudOk \in BOOLEAN : SweepDelete(p, cloudOk)
  \/ \E p \in sw.extras : SweepDeleteFails(p)
  \/ SweepTrimFails
  \/ SweepClear
  \/ Tick

SpecIsolate == InitIsolate /\ [][NextIsolate]_vars

----------------------------------------------------------------------------
(* canCreateProperty on its own: every role, subscription, count, Plan     *)
(* collection and instant                                                  *)

Roles == {"user", "agent", "admin"}     \* the role enum

\* the documents of account 1 a caller can pass, and no user
EvalInputs ==
  {DefaultUser(0)} \cup
  { UserDoc(1, role, s.plan, s.status, s.grace) :
      role \in Roles, s \in SubChoices }

CallCanCreateProperty(u, dbOk) ==
  /\ ev' = [NoEval EXCEPT !.op = "canCreateProperty", !.user = u,
                          !.db = planDb, !.dbOk = dbOk,
                          !.res = canCreateProperty(u, planDb, dbOk, props, now)]
  /\ UNCHANGED <<now, planDb, users, props, cloud, nextId, req, sw, trimmed, count0, sw2, failed>>

InitEval ==
  /\ now = T0
  /\ planDb \in PlanDbChoices
  /\ users = [a \in Accounts |-> DefaultUser(a)]
  /\ \E n \in 0..MaxInitProps :
       props = InitPropsOf(1, n) \cup
               UNION { InitPropsOf(a, 1) : a \in Accounts \ {1} }
  /\ cloud = ArtsOf(props)
  /\ nextId = FirstFreeId
  /\ req = [r \in Requests |-> IdleReq]
  /\ sw = IdleSweep
  /\ trimmed = {}
  /\ ev = NoEval
  /\ count0 = [a \in Accounts |->
       Cardinality({p \in props : p.agent = a /\ p.status # "deleted"})]
  /\ sw2 = IdleSweep
  /\ failed = {}

NextEval ==
  \/ \E u \in EvalInputs, dbOk \in BOOLEAN : CallCanCreateProperty(u, dbOk)
  \/ Tick

SpecEval == InitEval /\ [][NextEval]_vars

----------------------------------------------------------------------------
(* Two passes of runGraceCleanup in flight together: setInterval starts a  *)
(* pass every hour whether or not the one before has returned, and nothing *)
(* in the function locks. sw2 is the pass that starts while sw is running. *)

OverlapStart ==
  /\ sw2.pc = "idle"
  /\ sw2.pass = 0
  /\ sw.pc # "idle"
  /\ LET sel == SweepFilter(users, now)
     IN sw2' = [IdleSweep EXCEPT !.pc = SweepAfter(sel), !.pass = 1,
                                 !.sel = sel,
                                 !.defaultLimit = SweepDefaultLimit(planDb)]
  /\ UNCHANGED <<now, planDb, users, props, cloud, nextId, req, sw, trimmed, ev, count0, failed>>

OverlapCount(u) ==
  /\ sw2.pc = "loop"
  /\ u \in sw2.sel
  /\ sw2' = [sw2 EXCEPT !.pc = "counted", !.cur = u,
                        !.limit = SweepLimit(planDb, sw2.defaultLimit),
                        !.count = Cardinality(CountedOf(u, props)),
                        !.before = CountedOf(u, props)]
  /\ UNCHANGED <<now, planDb, users, props, cloud, nextId, req, sw, trimmed, ev, count0, failed>>

OverlapWithin ==
  /\ sw2.pc = "counted"
  /\ sw2.count <= sw2.limit
  /\ ClearGrace(sw2.cur)
  /\ sw2' = [sw2 EXCEPT !.pc = SweepAfter(sw2.sel \ {sw2.cur}),
                        !.sel = sw2.sel \ {sw2.cur}]
  /\ UNCHANGED <<now, planDb, props, cloud, nextId, req, sw, trimmed, ev, count0, failed>>

OverlapFind ==
  /\ sw2.pc = "counted"
  /\ sw2.count > sw2.limit
  /\ \E S \in NewestSets(sw2.cur, sw2.count - sw2.limit, props) :
       sw2' = [sw2 EXCEPT !.pc = "deleting", !.extras = S]
  /\ UNCHANGED <<now, planDb, users, props, cloud, nextId, req, sw, trimmed, ev, count0, failed>>

\* findByIdAndDelete of a document the other pass has deleted finds nothing
\* and does not throw
OverlapDelete(p, cloudOk) ==
  /\ sw2.pc = "deleting"
  /\ p \in sw2.extras
  /\ \A q \in sw2.extras : q.createdAt <= p.createdAt
  /\ cloud' = IF cloudOk THEN cloud \ {p.art} ELSE cloud
  /\ props' = { q \in props : q.id # p.id }
  /\ sw2' = [sw2 EXCEPT !.extras = sw2.extras \ {p}, !.removed = sw2.removed + 1]
  /\ UNCHANGED <<now, planDb, users, nextId, req, sw, trimmed, ev, count0, failed>>

OverlapClear ==
  /\ sw2.pc = "deleting"
  /\ sw2.extras = {}
  /\ ClearGrace(sw2.cur)
  /\ sw2' = [sw2 EXCEPT !.pc = SweepAfter(sw2.sel \ {sw2.cur}),
                        !.sel = sw2.sel \ {sw2.cur}]
  /\ UNCHANGED <<now, planDb, props, cloud, nextId, req, sw, trimmed, ev, count0, failed>>

NextOverlap ==
  \/ SweepStart
  \/ \E u \in Accounts : SweepCount(u)
  \/ SweepWithin
  \/ SweepFind
  \/ \E p \in sw.extras, cloudOk \in BOOLEAN : SweepDelete(p, cloudOk)
  \/ SweepClear
  \/ OverlapStart
  \/ \E u \in Accounts : OverlapCount(u)
  \/ OverlapWithin
  \/ OverlapFind
  \/ \E p \in sw2.extras, cloudOk \in BOOLEAN : OverlapDelete(p, cloudOk)
  \/ OverlapClear

SpecOverlap == InitLive /\ [][NextOverlap]_vars

----------------------------------------------------------------------------
(* The owner deleting properties while the sweep runs *)

\* the accounts whose holder sends DELETE /api/properties/:id
Owners == {1}

\* DELETE /api/properties/:id for a property that exists: 403 unless the
\* caller owns it, else Property.findByIdAndDelete; the media stay
deleteProperty(a, p) ==
  /\ users[a].role = "agent"
  /\ p \in props
  /\ props' = IF p.agent = a THEN props \ {p} ELSE props
  /\ ev' = SubEvent("deleteProperty", a, FALSE, IF p.agent = a THEN 200 ELSE 403)
  /\ UNCHANGED <<now, planDb, users, cloud, nextId, req, sw, trimmed, count0, sw2, failed>>

NextOwner ==
  \/ SweepStart
  \/ \E u \in Accounts : SweepCount(u)
  \/ SweepWithin
  \/ SweepFind
  \/ \E p \in sw.extras, cloudOk \in BOOLEAN : SweepDelete(p, cloudOk)
  \/ SweepClear
  \/ \E a \in Owners, p \in props : deleteProperty(a, p)

SpecOwner == InitLive /\ [][NextOwner]_vars

----------------------------------------------------------------------------
(* The claims' vocabulary, stated on the collections and not on the code's *)
(* helpers                                                                 *)

\* the account's count of non-deleted resources
ActiveCount(a) ==
  Cardinality({p \in props : p.agent = a /\ p.status # "deleted"})

\* graceUntil is set and in the future at instant t
InGraceAt(u, t) == u.graceUntil # NoTime /\ t < u.graceUntil

\* the limit of the user's effective plan
LimitOf(u) == OrElse(getUserPlanAsync(u, planDb, TRUE).postLimit, 0)

ReachedGate(r) == req[r].gate.reason # "unset"

GateRejected(r) == req[r].pc = "done" /\ req[r].resp = 403 /\ req[r].rid = 0

Persisted(r) == req[r].rid # 0

PropIds == { p.id : p \in props }

Max(a, b) == IF a >= b THEN a ELSE b

----------------------------------------------------------------------------
(* The creation gate and the post-creation check *)

\* C1: for a non-admin account that is not in grace and whose effective plan
\* has a finite limit L, the gate lets the creation proceed iff the account's
\* count of non-deleted resources is below L; otherwise it answers 403 with
\* reason post_limit_reached, that count and L, and nothing is created.
C1_GateAdmitsIffBelowLimit ==
  \A r \in Requests :
    LET u == req[r].user
        L == LimitOf(u)
    IN (ReachedGate(r) /\ u.role # "admin" /\ ~InGraceAt(u, req[r].t0) /\ L >= 0)
       => /\ req[r].gate.allowed <=> req[r].c0 < L
          /\ req[r].gate.allowed <=> ~GateRejected(r)
          /\ GateRejected(r) =>
               /\ req[r].gate.reason = "post_limit_reached"
               /\ req[r].gate.current = req[r].c0
               /\ req[r].gate.limit = L

\* a free-plan account with 5 resources is refused with current = 5, limit = 5
C1_Witness ==
  \E r \in Requests :
    /\ GateRejected(r)
    /\ req[r].user.plan = "free" /\ req[r].user.status = "none"
    /\ req[r].user.graceUntil = NoTime
    /\ req[r].gate.reason = "post_limit_reached"
    /\ req[r].c0 = FreePostLimit
    /\ req[r].gate.current = FreePostLimit /\ req[r].gate.limit = FreePostLimit

\* C2: an account whose effective plan limit is the unlimited sentinel is
\* let through the gate whatever its count.
C2_UnlimitedNeverRejected ==
  \A r \in Requests :
    (ReachedGate(r) /\ req[r].user.role # "admin"
       /\ LimitOf(req[r].user) = EnterprisePostLimit)
    => req[r].gate.allowed /\ ~GateRejected(r)

C5_GraceNoNetIncrease ==
  \A a \in Accounts :
    ((\A r \in Requests : req[r].pc \in {"idle", "done"})
       /\ InGraceAt(users[a], now))
    => ActiveCount(a) <= Max(count0[a], LimitOf(users[a]))

\* two overlapping attempts of an in-grace account one below its limit: one
\* stays, one is removed
C5_Witness ==
  \E a \in Accounts, r1, r2 \in Requests :
    /\ r1 # r2 /\ req[r1].user.id = a /\ req[r2].user.id = a
    /\ req[r1].pc = "done" /\ req[r2].pc = "done"
    /\ Persisted(r1) /\ Persisted(r2) /\ ~req[r1].solo /\ ~req[r2].solo
    /\ InGraceAt(users[a], now)
    /\ req[r1].resp = 201 /\ req[r2].resp = 403
    /\ count0[a] < LimitOf(users[a])
    /\ ActiveCount(a) = LimitOf(users[a])

----------------------------------------------------------------------------
(* The sweep *)

DistinctTimes(B) == \A p, q \in B : p # q => p.createdAt # q.createdAt

\* the k oldest of B
OldestOf(B, k) ==
  { p \in B : Cardinality({q \in B : q.createdAt < p.createdAt}) < k }

\* C6: a pass that handled an account holding N counted resources of
\* distinct createdAt, with plan limit L < N, has deleted exactly the N - L
\* newest, left the L oldest and cleared graceUntil.
C6_PassTrimsNewestToPlanLimit ==
  \A h \in trimmed :
    LET L == LimitOf(users[h.acct])
    IN (L >= 0 /\ Cardinality(h.before) > L /\ DistinctTimes(h.before))
       => /\ CountedOf(h.acct, props) = OldestOf(h.before, L)
          /\ users[h.acct].graceUntil = NoTime

\* the file's free plan: of 6 resources the newest is deleted, 5 stay
C6_Witness ==
  \E h \in trimmed :
    /\ planDb = {}
    /\ Cardinality(h.before) = FreePostLimit + 1 /\ DistinctTimes(h.before)
    /\ CountedOf(h.acct, props) = OldestOf(h.before, FreePostLimit)
    /\ users[h.acct].graceUntil = NoTime

\* C7: once a pass has handled an account, a following pass deletes none of
\* its resources: its graceUntil stays cleared and no later selection holds
\* the account.
C7_SecondPassDeletesNothing ==
  [][\A h \in trimmed :
       /\ CountedOf(h.acct, props') = CountedOf(h.acct, props)
       /\ users'[h.acct].graceUntil = NoTime
       /\ sw'.pass > h.pass => h.acct \notin sw'.sel]_vars

\* a second pass has run to its end after a first that deleted resources
C7_Witness ==
  \E h \in trimmed :
    /\ h.pass = 1 /\ Cardinality(h.before) > h.limit
    /\ Cardinality(CountedOf(h.acct, props)) < Cardinality(h.before)
    /\ sw.pass = 2 /\ sw.pc = "idle"

\* C8: the sweep deletes no resource of an account whose plan limit is the
\* unlimited sentinel, whichever plan carries it.
C8_SweepSparesUnlimited ==
  \A a \in Accounts :
    LimitOf(users[a]) = EnterprisePostLimit => ActiveCount(a) = count0[a]

----------------------------------------------------------------------------
(* Plan resolution *)

KnownPlan(db, name) == name # NoName /\ (DbHas(db, name) \/ FileHas(name))

\* C9: for a plan name that is absent or in no registry, the resolver
\* (getPlanConfig on the file, getPlanConfigAsync on collection and file)
\* returns the limit that resolving the default plan yields on the same
\* registries at that moment; the result is then unbounded only where the
\* default plan is.
C9_UnknownPlanGetsDefaultLimit ==
  /\ (ev.op = "getPlanConfig" /\ ~FileHas(ev.name))
     => ev.res.postLimit = getPlanConfig(defaultPlan).postLimit
  /\ (ev.op = "getPlanConfigAsync" /\ ~KnownPlan(ev.db, ev.name))
     => ev.res.postLimit =
          getPlanConfigAsync(defaultPlan, ev.db, ev.dbOk).postLimit

\* an absent name, the collection answering: the collection's free plan
C9_Witness ==
  /\ ev.op = "getPlanConfigAsync" /\ ev.name = NoName /\ ev.dbOk
  /\ DbHas(ev.db, defaultPlan)
  /\ ev.res = DbPlan(ev.db, defaultPlan)

\* C10: the effective plan is the 'trial' config when the status is
\* trialing, else the config of subscription.plan, else (no plan, no
\* subscription, no user) the default plan's config.
C10_EffectivePlan ==
  ev.op = "getUserPlanAsync"
  => ev.res =
       IF ev.user.id # 0 /\ ev.user.status = "trialing"
       THEN getPlanConfigAsync("trial", ev.db, ev.dbOk)
       ELSE IF ev.user.id # 0 /\ ev.user.plan # NoName
       THEN getPlanConfigAsync(ev.user.plan, ev.db, ev.dbOk)
       ELSE getPlanConfigAsync(defaultPlan, ev.db, ev.dbOk)

\* a trialing user whose subscription.plan is enterprise gets the trial plan
C10_Witness ==
  /\ ev.op = "getUserPlanAsync"
  /\ ev.user.status = "trialing" /\ ev.user.plan = "enterprise"
  /\ ev.res.name = "trial" /\ ev.res.postLimit = TrialPostLimit

----------------------------------------------------------------------------
(* The subscription *)

\* C11: whatever subscribe, cancel, webhook and refresh operations have
\* run, a subscription of status active has its currentPeriodEnd set.
C11_ActiveHasPeriodEnd ==
  \A a \in Accounts :
    users[a].status = "active" => users[a].currentPeriodEnd # NoTime

\* the webhook leaves an active subscription with a period of PeriodDays
C11_Witness ==
  /\ ev.op = "webhook"
  /\ users[ev.acct].status = "active"
  /\ users[ev.acct].currentPeriodEnd = now + PeriodDays

\* C12: whatever subscribe, cancel, webhook, refresh and sweep operations
\* have run, an account whose graceUntil is set is on plan 'free'.
C12_GraceOnlyOnFreePlan ==
  \A a \in Accounts :
    users[a].graceUntil # NoTime => users[a].plan = "free"

\* a cancel request that was answered 200 has just been handled
CancelStep == ev' # ev /\ ev'.op = "cancel" /\ ev'.resp = 200

\* C13: an immediate cancel of a subscription whose status is not none sets
\* plan free, status none and graceUntil = now + 7 days and leaves every
\* property as it was; a cancel that is not immediate sets cancelAtPeriodEnd
\* and cancelAt and nothing else of the subscription.
C13_CancelEffect ==
  [][CancelStep =>
       LET a == ev'.acct
       IN /\ users[a].status # "none"
          /\ props' = props
          /\ IF ev'.immediate
             THEN /\ users'[a].plan = "free"
                  /\ users'[a].status = "none"
                  /\ users'[a].graceUntil = now + GraceDays
             ELSE users'[a] =
                    [users[a] EXCEPT !.cancelAtPeriodEnd = TRUE,
                                     !.cancelAt = users[a].currentPeriodEnd]]_vars

\* a pro subscription has just been cancelled at once; the account's
\* MaxInitProps properties are all there
C13_Witness ==
  /\ ev.op = "cancel" /\ ev.immediate /\ ev.resp = 200
  /\ users[ev.acct].plan = "free" /\ users[ev.acct].status = "none"
  /\ users[ev.acct].graceUntil = now + GraceDays
  /\ ActiveCount(ev.acct) = MaxInitProps

----------------------------------------------------------------------------
(* Passive expiry and eventual trimming *)

\* C14: once a trialing subscription's trialEndsAt or an active one's
\* currentPeriodEnd has elapsed, the subscription eventually is on plan
\* free, status none, with a grace window, with no subscribe or cancel.
C14_ExpiryEventuallyDowngrades ==
  \A a \in Accounts :
    Expired(users[a], now)
    ~> (/\ users[a].plan = "free" /\ users[a].status = "none"
        /\ users[a].graceUntil # NoTime)

\* when the refresh does run on an expired trial, it downgrades it
C14_Witness ==
  /\ ev.op \in {"updateLastLogin", "refreshExpiredSubscriptions"}
  /\ users[1].plan = "free" /\ users[1].status = "none"
  /\ users[1].graceUntil = now + GraceDays
  /\ users[1].trialEndsAt # NoTime /\ users[1].trialEndsAt <= now

\* on plan free, grace window lapsed, more counted properties than the limit
LapsedOver(a) ==
  /\ users[a].plan = "free" /\ users[a].status = "none"
  /\ users[a].graceUntil # NoTime /\ users[a].graceUntil <= now
  /\ LimitOf(users[a]) >= 0
  /\ ActiveCount(a) > LimitOf(users[a])

\* C15: an account on the default plan whose grace window has lapsed while
\* its count exceeds the plan limit eventually has a count of at most the
\* limit and its graceUntil cleared.
C15_EventuallyTrimmed ==
  \A a \in Accounts :
    LapsedOver(a)
    ~> (ActiveCount(a) <= LimitOf(users[a]) /\ users[a].graceUntil = NoTime)

\* the file's limit: a pass has trimmed MaxInitProps properties down to it
C15_Witness ==
  /\ planDb = {}
  /\ count0[1] = MaxInitProps
  /\ users[1].plan = "free" /\ users[1].graceUntil = NoTime
  /\ ActiveCount(1) = FreePostLimit
  /\ \E h \in trimmed : h.acct = 1

----------------------------------------------------------------------------
(* Failures *)

\* C16: a rollback or a sweep trim whose artifact deletion fails still
\* deletes the record and ends as it does when the deletion succeeds: the
\* rollback answers 403 with the created document gone, the sweep goes on
\* to its next extra with the property gone.
C16_CleanupFailureSwallowed ==
  [][/\ \A r \in Requests :
          RemoveCreated(r, FALSE)
          => /\ props' = {p \in props : p.id # req[r].rid}
             /\ req'[r].pc = "done" /\ req'[r].resp = 403
             /\ req'[r].cEnd = countPropertiesForAgent(req[r].user.id, props')
     /\ \A p \in props :
          SweepDelete(p, FALSE)
          => /\ props' = props \ {p}
             /\ sw'.extras = sw.extras \ {p}
             /\ sw'.removed = sw.removed + 1
             /\ sw'.pc = "deleting"]_vars

\* a rollback and a sweep trim have both left their artifact behind and
\* deleted their record
C16_Witness ==
  /\ \E r \in Requests :
       /\ req[r].pc = "done" /\ req[r].resp = 403 /\ req[r].rid # 0
       /\ req[r].rid \notin PropIds
       /\ req[r].art \in cloud
  /\ \E h \in trimmed :
       \E p \in h.before : p \notin props /\ p.art \in cloud

\* C17: a creation request during which canCreateProperty threw, in the
\* gate or after the creation, ends with a failure response, never 201.
C17_EvaluationFailureFailsRequest ==
  \A r \in Requests :
    (req[r].pc = "done"
       /\ (req[r].gate.reason = "threw" \/ req[r].check.reason = "threw"))
    => req[r].resp >= 400

\* the gate's evaluation threw: 500, nothing created
C17_Witness ==
  \E r \in Requests :
    /\ req[r].pc = "done" /\ req[r].gate.reason = "threw"
    /\ req[r].resp = 500 /\ req[r].rid = 0

----------------------------------------------------------------------------
(* The evaluator's precedence *)

\* C18: for a user whose role is admin, canCreateProperty returns allowed
\* with reason 'admin bypass', whatever the plan, the count and the grace
\* window.
C18_AdminBypass ==
  (ev.op = "canCreateProperty" /\ ev.user.id # 0 /\ ev.user.role = "admin")
  => (ev.res.allowed /\ ev.res.reason = "admin bypass")

\* an admin on the free plan, out of grace, over the limit: allowed
C18_Witness ==
  /\ ev.op = "canCreateProperty" /\ ev.user.role = "admin"
  /\ ev.user.plan = "free" /\ ev.user.status = "none"
  /\ ~isInGrace(ev.user, now)
  /\ ActiveCount(1) > OrElse(getUserPlanAsync(ev.user, ev.db, ev.dbOk).postLimit, 0)
  /\ ev.res.allowed /\ ev.res.reason = "admin bypass"

----------------------------------------------------------------------------
(* Racing creations *)

AllAnswered == \A r \in Requests : req[r].pc \in {"idle", "done"}

\* the requests of account a that were answered
AttemptsOf(a) ==
  { r \in Requests : req[r].pc = "done" /\ req[r].user.id = a }

\* those that persisted a counted property
CountedAttemptsOf(a) ==
  { r \in AttemptsOf(a) : req[r].rid # 0 /\ req[r].status # "deleted" }

RolledBackOf(a) == { r \in CountedAttemptsOf(a) : req[r].resp = 403 }

C20_BoundedOvershoot ==
  \A a \in Accounts :
    LET L == LimitOf(users[a])
        k == Cardinality(AttemptsOf(a))
    IN (AllAnswered /\ k >= 1 /\ users[a].role # "admin" /\ L >= 0
          /\ count0[a] <= L
          /\ \A r \in AttemptsOf(a) : ~InGraceAt(req[r].user, req[r].t0))
       => ActiveCount(a) <= L + k - 1

\* two attempts that both passed the gate at L - 1 leave L + 1
C20_Witness ==
  \E a \in Accounts :
    /\ AllAnswered /\ Cardinality(AttemptsOf(a)) = 2
    /\ users[a].graceUntil = NoTime /\ LimitOf(users[a]) >= 1
    /\ count0[a] = LimitOf(users[a]) - 1
    /\ ActiveCount(a) = LimitOf(users[a]) + 1

----------------------------------------------------------------------------
(* The sweep: overlap, selection, limit, failures *)

Min(a, b) == IF a <= b THEN a ELSE b

BothPassesEnded ==
  /\ sw.pc = "idle" /\ sw.pass >= 1
  /\ sw2.pc = "idle" /\ sw2.pass = 1

HandledAcct(a) == \E h \in trimmed : h.acct = a

\* C21: when two passes have run against an account with their reads and
\* deletes interleaved, and nothing else touched the account, it holds
\* exactly its min(N, L) oldest resources.
C21_OverlapKeepsOldest ==
  \A a \in Accounts :
    LET L == LimitOf(users[a])
    IN (BothPassesEnded /\ HandledAcct(a) /\ L >= 1)
       => CountedOf(a, props) = InitPropsOf(a, Min(count0[a], L))

\* the two passes overlapped and left exactly the limit
C21_Witness ==
  \E a \in Accounts :
    /\ BothPassesEnded /\ HandledAcct(a) /\ sw2.cur = a
    /\ count0[a] > LimitOf(users[a]) /\ LimitOf(users[a]) >= 1
    /\ CountedOf(a, props) = InitPropsOf(a, LimitOf(users[a]))

\* on the default plan with a grace window that has ended at instant t
Selectable(u, t) ==
  u.plan = defaultPlan /\ u.graceUntil # NoTime /\ u.graceUntil <= t

\* C22: a pass selects exactly the accounts on the default plan whose
\* graceUntil is set and not after the sweep time, and it deletes resources
\* and clears graceUntil only for accounts of its selection.
C22_SweepActsOnSelectedOnly ==
  [][/\ sw'.pass # sw.pass
          => sw'.sel = { a \in Accounts : Selectable(users[a], now) }
     /\ \A a \in Accounts :
          (CountedOf(a, props') # CountedOf(a, props) \/ users'[a] # users[a])
          => a \in sw.sel /\ Selectable(users[a], now)]_vars

\* a pass has trimmed one account and left alone another that is over the
\* limit with no grace window
C22_Witness ==
  \E h \in trimmed, b \in Accounts :
    /\ sw.pc = "idle"
    /\ Cardinality(CountedOf(h.acct, props)) < Cardinality(h.before)
    /\ b # h.acct /\ users[b].graceUntil = NoTime /\ ~HandledAcct(b)
    /\ count0[b] > h.limit /\ ActiveCount(b) = count0[b]

\* the limit the quota evaluator reports for account a now
EvaluatorLimit(a) == canCreateProperty(users[a], planDb, TRUE, props, now).limit

\* C23: the limit a pass holds for the account it is handling is the limit
\* canCreateProperty applies to that account at the same moment, on the
\* same Plan collection and file.
C23_SweepLimitIsEvaluatorLimit ==
  sw.pc \in {"counted", "deleting"} => sw.limit = EvaluatorLimit(sw.cur)

\* a free plan edited in the Plan collection: both read its postLimit
C23_Witness ==
  /\ sw.pc = "counted"
  /\ DbHas(planDb, "free") /\ DbPlan(planDb, "free").postLimit = 2
  /\ sw.limit = 2 /\ EvaluatorLimit(sw.cur) = 2

FailedIn(a, pass) == [acct |-> a, pass |-> pass] \in failed

HandledIn(a, pass) == \E h \in trimmed : h.acct = a /\ h.pass = pass

\* C24: a failure while one selected account is processed leaves that
\* account's graceUntil as it was and takes only that account out of the
\* pass: every other selected account is handled or fails on its own, the
\* pass ends with its selection exhausted, and the next pass selects the
\* accounts that failed.
C24_FailureIsolated ==
  [][/\ sw'.pass = sw.pass =>
          \A a \in sw.sel \ sw'.sel :
            \/ HandledIn(a, sw.pass)'
            \/ /\ FailedIn(a, sw.pass)'
               /\ users'[a].graceUntil = users[a].graceUntil
               /\ users[a].graceUntil # NoTime
     /\ (sw.pc # "idle" /\ sw'.pc = "idle") => sw.sel \subseteq {sw'.cur}
     /\ sw'.pass = sw.pass + 1 =>
          \A a \in Accounts : FailedIn(a, sw.pass) => a \in sw'.sel]_vars

\* one account failed in the first pass, another was handled in it, and
\* the second pass has selected the one that failed
C24_Witness ==
  \E a, b \in Accounts :
    /\ a # b /\ FailedIn(a, 1) /\ HandledIn(b, 1)
    /\ sw.pass = 2 /\ a \in sw.sel

\* the account's count when the pass took it was within the pass's limit,
\* or within the plan's
WithinLimit(h) ==
  \/ Cardinality(h.before) <= h.limit
  \/ /\ LimitOf(users[h.acct]) >= 0
     /\ Cardinality(h.before) <= LimitOf(users[h.acct])

\* C25: the step by which a pass handles a selected account whose count is
\* at most its limit deletes no resource and no artifact and changes
\* nothing of any user but that account's graceUntil, which it clears.
C25_WithinLimitOnlyClears ==
  [][\A h \in trimmed' \ trimmed :
       WithinLimit(h) =>
         /\ props' = props
         /\ cloud' = cloud
         /\ users' = [users EXCEPT ![h.acct].graceUntil = NoTime]]_vars

\* an account exactly at the file's limit was handled and kept everything
C25_Witness ==
  \E h \in trimmed :
    /\ Cardinality(h.before) = FreePostLimit /\ h.limit = FreePostLimit
    /\ CountedOf(h.acct, props) = h.before
    /\ users[h.acct].graceUntil = NoTime

----------------------------------------------------------------------------
(* Grace ending, or the account changing, while an operation is under way *)

\* request r passed the gate at or over the limit, on grace alone
AdmittedOnGrace(r) ==
  /\ req[r].user.role # "admin"
  /\ LimitOf(req[r].user) >= 0
  /\ req[r].gate.allowed
  /\ req[r].c0 >= LimitOf(req[r].user)

\* C26: a counted creation that passed the gate only because the account
\* was in grace does not end accepted, whether or not graceUntil passes
\* between the gate and the post-creation check.
C26_GraceAdmissionNeverAccepted ==
  \A r \in Requests :
    (req[r].pc = "done" /\ AdmittedOnGrace(r) /\ req[r].status # "deleted")
    => req[r].resp # 201

\* grace still running at the check: the creation is rolled back
C26_Witness ==
  \E r \in Requests :
    /\ req[r].pc = "done" /\ AdmittedOnGrace(r) /\ req[r].status # "deleted"
    /\ req[r].user.graceUntil = T0 + 1 /\ now = T0
    /\ req[r].rid # 0 /\ req[r].resp = 403

\* a step of the running pass
SweepActs == sw' # sw

\* C27: a step of the sweep deletes resources of an account only if at
\* that moment the account is on the default plan with no grace window in
\* the future, and clears a graceUntil only if it is not in the future (a
\* window set after the selection query is), whatever the account's holder
\* has done since the selection query.
C27_SweepRespectsLiveAccount ==
  [][SweepActs =>
       \A a \in Accounts :
         /\ CountedOf(a, props') # CountedOf(a, props)
              => users[a].plan = defaultPlan /\ ~InGraceAt(users[a], now)
         /\ users'[a].graceUntil # users[a].graceUntil
              => ~InGraceAt(users[a], now)]_vars

\* the sweep has trimmed an account that cancelled and let its grace lapse
C27_Witness ==
  \E h \in trimmed :
    /\ ev.op = "cancel"
    /\ Cardinality(h.before) > h.limit
    /\ Cardinality(CountedOf(h.acct, props)) = h.limit
    /\ users[h.acct].plan = defaultPlan /\ users[h.acct].graceUntil = NoTime

\* C28: a step of the sweep that deletes a resource of an account on a
\* limit L >= 0 finds the account's live count above L, also when the
\* owner deletes resources between the sweep's count and its deletions.
C28_SweepDeletesOnlyAboveLimit ==
  [][SweepActs =>
       \A a \in Accounts :
         (CountedOf(a, props') # CountedOf(a, props) /\ LimitOf(users[a]) >= 0)
         => ActiveCount(a) > LimitOf(users[a])]_vars

\* the owner deleted the very resource the sweep had selected: the account
\* is left with its limit
C28_Witness ==
  \E h \in trimmed :
    /\ ev.op = "deleteProperty" /\ ev.resp = 200 /\ ev.acct = h.acct
    /\ sw.removed >= 1 /\ sw.cur = h.acct /\ h.pass = 1 /\ sw.pass = 1
    /\ Cardinality(h.before) = h.limit + 1 /\ h.limit = LimitOf(users[h.acct])
    /\ Cardinality(CountedOf(h.acct, props)) = h.limit

----------------------------------------------------------------------------
(* Artifacts *)

\* C29: every persisted resource still has its artifacts in the external
\* store, after a rollback or a trim step that succeeded and after one
\* that failed; a creation answered 201 is such a resource.
C29_NoRecordWithoutArtifacts ==
  \A p \in props : p.art # 0 => p.art \in cloud

\* a rollback that succeeded: record and artifacts are gone together
C29_Witness ==
  \E r \in Requests :
    /\ req[r].pc = "done" /\ req[r].resp = 403 /\ req[r].rid # 0
    /\ req[r].rid \notin PropIds /\ req[r].art \notin cloud

----------------------------------------------------------------------------
(* Repeating a downgrade *)

\* a step of one of the subscription operations, op being the operation
SubStep(op) == sw' = sw /\ now' = now /\ ev'.op = op

\* instants at which a refresh may be applied again
LaterTimes == {now, now + 1, now + GraceDays, now + PeriodDays}

\* C30: while an account's status is none, a cancel is answered 400 and
\* leaves the subscription as it was, and updateLastLogin's refresh and
\* refreshExpiredSubscriptions change nothing of it; a refresh applied
\* again at the same instant, or at any later one once the status is none,
\* gives what the first gave, graceUntil included.
C30_DowngradeNotRepeatable ==
  [][/\ \A a \in Accounts :
          users[a].status = "none" =>
            /\ (SubStep("cancel") /\ ev'.acct = a)
                 => users'[a] = users[a] /\ ev'.resp = 400
            /\ (SubStep("updateLastLogin") /\ ev'.acct = a)
                 => users'[a] = users[a]
            /\ SubStep("refreshExpiredSubscriptions") => users'[a] = users[a]
     /\ \A a \in Accounts, t \in LaterTimes :
          LET once == refreshSubscriptionStatus(users[a], now)
          IN (t = now \/ once.status = "none")
             => refreshSubscriptionStatus(once, t) = once]_vars

\* a cancel refused for an account that a cancel or an expiry had
\* downgraded, its grace window still as the downgrade set it
C30_Witness ==
  \E a \in Accounts :
    /\ ev.op = "cancel" /\ ev.resp = 400 /\ ev.acct = a
    /\ users[a].status = "none" /\ users[a].plan = "free"
    /\ users[a].graceUntil # NoTime /\ users[a].currentPeriodEnd # NoTime
    /\ users[a].currentPeriodEnd <= now

====
